---- MODULE Spec2Model ----
(***************************************************************************)
(* State-machine model of lbrynet/stream/downloader.py:                    *)
(*   - StreamDownloader (connection pool, request ledger, get_blob,        *)
(*     _accumulate_connections, stop, _download, download)                 *)
(*   - AsyncGeneratorJunction (fan-in merger)                              *)
(* The program runs on one asyncio event loop: a step of the model is what *)
(* one task executes between two suspension points (an await that really   *)
(* suspends).  self.lock is never held across a suspension point, so       *)
(* "await self.lock.acquire()" never suspends and a locked section is part *)
(* of the step that contains it.                                           *)
(***************************************************************************)
EXTENDS Integers, Sequences, FiniteSets, Bags, TLC

\* ------------------------------------------------------------------ bounds
NumPeers == 2
NumBlobs == 3
MaxCandidates == 3
MaxStops == 2
NumGens == 2
MaxItems == 2
MaxCompletions == 2

Peers == 1..NumPeers
Blobs == 1..NumBlobs
NoBlob == 0
Gens == 1..NumGens

VARIABLES
    \* StreamDownloader fields
    connections,      \* self.connections: set of peers
    has_peers,        \* self.has_peers: asyncio.Event (TRUE = set)
    requests,         \* self.requests: blob hash -> list of peers asked
    tasks,            \* self.tasks: list of _request_blob coroutines (by peer)
    current_blob,     \* self.current_blob (NoBlob = None)
    download_task,    \* "none" | "pending" | "running" | "finished" | "cancelled"
    dlExc,            \* exception the finished download task holds ("none" = a result)
    dlMustCancel,     \* a cancel() of the download task has not been delivered yet
    accumulator_task, \* "none" | "running" | "finished" | "cancelled"
    accMustCancel,    \* a cancel() of the accumulator task has not been delivered yet
    \* positions of the tasks
    dlPc,             \* _download: "init" | "assemble" | "get_blob" | "status" | "end"
    gbPc,             \* get_blob: "idle" | "wait_tasks" | "wait_signals"
    accPc,            \* _accumulate_connections: "iter" | "connect"
    accPeer,          \* the candidate the accumulator is connecting (0 = none)
    \* tasks created by asyncio.wait(tasks) from the _request_blob coroutines
    fetches,          \* bag of [peer, st, blob, fate, waited]
    waitDone,         \* a task of the current asyncio.wait(tasks) has completed
    \* collaborators
    verified,         \* blob store: hashes whose blob is verified
    responsive,       \* peers whose request of the current blob succeeds in time
    found,            \* number of candidates the peer finder has yielded
    finderStopped,    \* peer_finder.stop() was called
    nextBlob,         \* assembler: index of the next blob of the stream
    \* observations
    gbArg,            \* blob_hash argument of the latest get_blob call
    gbRet,            \* blob returned by the latest get_blob call (NoBlob = not returned)
    launched,         \* launched[p][h]: requests of blob h sent to peer p
    disconnects,      \* disconnects[p]: calls of p.disconnect_tcp()
    stopCalls,        \* external calls of stop()
    cleanupRuns,      \* runs of the finally block of _download
    finishedCalls,    \* calls of finished_callback
    scenA,            \* the latest get_blob call started as Scenario A: "no" | "on" | "off"
    lockless,         \* shared fields that were changed by a task not holding self.lock
    taskExc,          \* exceptions that ended a _request_blob task
    \* AsyncGeneratorJunction fields
    running_iterators,\* self.running_iterators: registered generator -> bool
    queue,            \* self.queue: items put and not yet got
    \* the tasks around the junction
    itSt,             \* iterate(g): "none" | "handle" | "created" | "running" | "done" | "failed"
    produced,         \* produced[g]: items generator g has yielded
    consPc,           \* consumer of the junction: "idle" | "waiting" | "stopped"
    consumed,         \* items __anext__ has returned, in order
    signalled         \* StopAsyncIteration raised by __anext__, counted

dvars == <<connections, has_peers, requests, tasks, current_blob, download_task, dlExc,
          dlMustCancel, accumulator_task, accMustCancel, dlPc, gbPc, accPc, accPeer,
          fetches, waitDone, verified, responsive, found, finderStopped, nextBlob,
          gbArg, gbRet, launched, disconnects, stopCalls, cleanupRuns,
          finishedCalls, scenA, lockless, taskExc>>

jvars == <<running_iterators, queue, itSt, produced, consPc, consumed, signalled>>

vars == <<dvars, jvars>>

\* ----------------------------------------------------------------- helpers
RECURSIVE SortedSeq(_)
\* A set of peers as a list; Python iterates a set in a fixed, arbitrary order.
SortedSeq(S) ==
    IF S = {} THEN << >>
    ELSE LET m == CHOOSE x \in S : \A y \in S : x <= y
         IN  <<m>> \o SortedSeq(S \ {m})

InSeq(x, s) == \E i \in 1..Len(s) : s[i] = x

RECURSIVE Wrap(_, _)
\* asyncio.wait(tasks): every coroutine of the list becomes a scheduled task.
Wrap(bag, s) ==
    IF s = << >> THEN bag
    ELSE Wrap(bag (+) SetToBag({[peer |-> Head(s), st |-> "sched", blob |-> NoBlob,
                                 fate |-> "none", waited |-> TRUE]}), Tail(s))

\* The tasks of an asyncio.wait that has returned run on in the background.
Unwait(bag) ==
    LET S == BagToSet(bag)
        U(f) == [f EXCEPT !.waited = FALSE]
    IN  [g \in {U(f) : f \in S} |->
            (IF g \in S THEN bag[g] ELSE 0) +
            (IF [g EXCEPT !.waited = TRUE] \in S THEN bag[[g EXCEPT !.waited = TRUE]] ELSE 0)]

Remove(bag, f) == bag (-) SetToBag({f})
Replace(bag, f, g) == (bag (-) SetToBag({f})) (+) SetToBag({g})

get_is_verified(h) == h \in verified
finished_writing(h) == h \in verified

\* ------------------------------------------------------- StreamDownloader
\* _update_requests without the test of line 137: every peer of the pool.
UnaskedNoLedger(conns, entry) == SortedSeq(conns)

\* _update_requests, line 137: the peers of the pool the ledger entry lacks.
Unasked(conns, entry) == SortedSeq({p \in conns : ~InSeq(p, entry)})

\* _update_requests with one list shared by every blob.
LedgerAppendShared(reqs, cur, new) == [h \in DOMAIN reqs |-> reqs[h] \o new]

\* _update_requests, line 138: the ledger after the peers were appended to
\* the entry of the current blob.
LedgerAppend(reqs, cur, new) == [reqs EXCEPT ![cur] = @ \o new]

\* _update_requests: the ledger and the coroutine list after one call.
UpdateRequests(reqs, tsk, conns, cur) ==
    LET new == Unasked(conns, reqs[cur])
    IN  [requests |-> LedgerAppend(reqs, cur, new), tasks |-> tsk \o new]

\* get_blob without the early return of lines 148-149.
CacheHitNever(h) == FALSE

\* get_blob, line 148: the blob is verified already.
CacheHit(h) == get_is_verified(h)

\* get_blob, line 153: the loop condition.
LoopCond(h) == ~get_is_verified(h)

\* get_blob returning after the wait whatever the state of the blob.
ReturnAfterWaitAlways(h) == TRUE

\* get_blob, line 175: return after the wait only if the blob is verified.
ReturnAfterWait(h) == get_is_verified(h)

\* get_blob, lines 154-166: the branches of one pass of the loop.
LoopDispatch(hp, conns, reqs, tsk, cur) ==
    IF ~hp /\ conns # {}
    THEN [hp |-> hp, u |-> UpdateRequests(reqs, tsk, conns, cur)]
    ELSE IF hp
    THEN LET u1 == UpdateRequests(reqs, tsk, conns, cur)
         IN  [hp |-> FALSE, u |-> UpdateRequests(u1.requests, u1.tasks, conns, cur)]
    ELSE [hp |-> hp, u |-> [requests |-> reqs, tasks |-> tsk]]

\* _request_blob without the removal of line 127.
EvictNot(conns, p) == conns

\* _request_blob, line 127: the pool after connections.remove(peer).
Evict(conns, p) == conns \ {p}

\* _request_blob clearing the signal at every removal, without the test of
\* line 128.
SignalAfterEvictAlways(conns, hp) == FALSE

\* _request_blob, lines 128-129: the signal after the removal.
SignalAfterEvict(conns, hp) == IF conns = {} THEN FALSE ELSE hp

\* stop disconnecting the peers without popping them.
StopPoolKeep(conns) == conns

\* stop, lines 197-198: the pool after every peer was popped.
StopPool(conns) == {}

\* get_blob, line 157: has_peers.clear() before self.lock is acquired at line
\* 159; the fields the statement changes with the lock not held.
ClearLockless(hp) == IF hp THEN {"has_peers"} ELSE {}

\* stop, lines 197-198: connections.pop() in a function that never acquires
\* self.lock; the fields the loop changes with the lock not held.
PopLockless(conns) == IF conns # {} THEN {"connections"} ELSE {}

\* stop, lines 192-193: cancel the accumulator task unless it is done.
StopCancelsAcc == accumulator_task = "running"

\* stop, lines 194-195: cancel the download task unless it is done.
StopCancelsDl == download_task \in {"pending", "running"}

\* stop, lines 192-198, but for the download task (the caller decides what
\* cancel() means for it).
StopBody ==
    /\ accMustCancel' = (accMustCancel \/ StopCancelsAcc)
    /\ finderStopped' = TRUE
    /\ disconnects' = [p \in Peers |-> disconnects[p] + (IF p \in connections THEN 1 ELSE 0)]
    /\ connections' = StopPool(connections)
    /\ lockless' = lockless \cup PopLockless(connections)

\* get_blob, lines 153-174 for an unverified blob: one pass of the loop up to
\* the await that suspends it.
LoopPass(reqs, tsk) ==
    LET d == LoopDispatch(has_peers, connections, reqs, tsk, current_blob')
    IN  /\ has_peers' = d.hp
        /\ lockless' = lockless \cup ClearLockless(has_peers)
        /\ requests' = d.u.requests
        /\ tasks' = << >>
        /\ IF d.u.tasks # << >>
           THEN /\ fetches' = Wrap(Unwait(fetches), d.u.tasks)
                /\ gbPc' = "wait_tasks"
           ELSE /\ fetches' = Unwait(fetches)
                /\ gbPc' = "wait_signals"
        /\ waitDone' = FALSE

\* get_blob returns self.current_blob to the assembler.
Return ==
    /\ gbRet' = current_blob'
    /\ responsive' = {}
    /\ gbPc' = "idle"
    /\ dlPc' = "assemble"
    /\ nextBlob' = nextBlob + 1

\* Scenario A: the pool is {P1, P2}, the request to P1 times out and the
\* request to P2 succeeds.
ScenarioA(h, good) ==
    /\ connections = {1, 2}
    /\ good = {2}
    /\ ~get_is_verified(h)

\* get_blob, lines 141-172: the call, up to its return or first suspension.
GetBlobCall ==
    /\ UNCHANGED jvars
    /\ UNCHANGED taskExc
    /\ download_task = "running" /\ ~dlMustCancel
    /\ dlPc = "assemble" /\ nextBlob \in Blobs
    /\ current_blob' = nextBlob
    /\ gbArg' = nextBlob
    /\ IF CacheHit(nextBlob)
       THEN /\ Return
            /\ scenA' = "no"
            /\ UNCHANGED <<has_peers, requests, tasks, fetches, waitDone, lockless>>
       ELSE LET u == UpdateRequests(requests, tasks, connections, nextBlob)
            IN  IF LoopCond(nextBlob)
                THEN /\ LoopPass(u.requests, u.tasks)
                     /\ \E good \in SUBSET Peers :
                           /\ responsive' = good
                           /\ scenA' = IF ScenarioA(nextBlob, good) THEN "on" ELSE "no"
                     /\ gbRet' = NoBlob
                     /\ dlPc' = "get_blob"
                     /\ UNCHANGED nextBlob
                ELSE /\ Return
                     /\ scenA' = "no"
                     /\ requests' = u.requests
                     /\ tasks' = u.tasks
                     /\ UNCHANGED <<has_peers, fetches, waitDone, lockless>>
    /\ UNCHANGED <<connections, download_task, dlExc, dlMustCancel, accumulator_task,
                   accMustCancel, accPc, accPeer, verified, found,
                   finderStopped, launched, disconnects, stopCalls, cleanupRuns,
                   finishedCalls>>

\* peer.request_blobs: how the request of the current blob to peer p ends.
Answer(p) == IF p \in responsive THEN "ok" ELSE "timeout"

\* asyncio.wait(tasks) schedules the first step of every new task before the
\* callback of any completion, so the download task resumes only after all of
\* them have started.
AllStarted == \A f \in BagToSet(fetches) : f.st # "sched"

\* get_blob, line 172: asyncio.wait(tasks, FIRST_COMPLETED) returns; line 173
\* suspends on the two signals.
GetBlobTasksDone ==
    /\ UNCHANGED jvars
    /\ UNCHANGED taskExc
    /\ UNCHANGED lockless
    /\ download_task = "running" /\ ~dlMustCancel
    /\ gbPc = "wait_tasks" /\ waitDone /\ AllStarted
    /\ gbPc' = "wait_signals"
    /\ fetches' = Unwait(fetches)
    /\ waitDone' = FALSE
    /\ UNCHANGED <<connections, has_peers, requests, tasks, current_blob, download_task,
                   dlExc, dlMustCancel, accumulator_task, accMustCancel, dlPc, accPc,
                   accPeer, verified, responsive, found, finderStopped, nextBlob, gbArg,
                   gbRet, launched, disconnects, stopCalls, cleanupRuns, finishedCalls,
                   scenA>>

\* get_blob, lines 173-176 and the next pass: the wait on has_peers and
\* finished_writing returns.
GetBlobSignal ==
    /\ UNCHANGED jvars
    /\ UNCHANGED taskExc
    /\ download_task = "running" /\ ~dlMustCancel
    /\ gbPc = "wait_signals"
    /\ has_peers \/ finished_writing(current_blob)
    /\ UNCHANGED current_blob
    /\ IF ReturnAfterWait(current_blob) \/ ~LoopCond(current_blob)
       THEN /\ Return
            /\ UNCHANGED <<has_peers, requests, tasks, fetches, waitDone, lockless>>
       ELSE /\ LoopPass(requests, tasks)
            /\ UNCHANGED <<gbRet, dlPc, nextBlob, responsive>>
    /\ UNCHANGED <<connections, download_task, dlExc, dlMustCancel, accumulator_task,
                   accMustCancel, accPc, accPeer, verified, found,
                   finderStopped, gbArg, launched, disconnects, stopCalls, cleanupRuns,
                   finishedCalls, scenA>>

\* _request_blob, lines 121-123: the task starts and sends the request of
\* self.current_blob to its peer.
FetchStart(f) ==
    /\ UNCHANGED jvars
    /\ UNCHANGED taskExc
    /\ UNCHANGED lockless
    /\ f.st = "sched"
    /\ fetches' = Replace(fetches, f, [f EXCEPT !.st = "inflight", !.blob = current_blob,
                                           !.fate = Answer(f.peer)])
    /\ launched' = [launched EXCEPT ![f.peer][current_blob] = @ + 1]
    /\ UNCHANGED <<connections, has_peers, requests, tasks, current_blob, download_task,
                   dlExc, dlMustCancel, accumulator_task, accMustCancel, dlPc, gbPc,
                   accPc, accPeer, waitDone, verified, responsive, found, finderStopped,
                   nextBlob, gbArg, gbRet, disconnects, stopCalls, cleanupRuns,
                   finishedCalls, scenA>>

\* _request_blob, line 123: request_blobs returns, the blob store has the blob.
FetchSuccess(f) ==
    /\ UNCHANGED jvars
    /\ UNCHANGED taskExc
    /\ UNCHANGED lockless
    /\ f.st = "inflight" /\ f.fate = "ok"
    /\ verified' = verified \cup {f.blob}
    /\ fetches' = Remove(fetches, f)
    /\ waitDone' = (waitDone \/ f.waited)
    /\ UNCHANGED <<connections, has_peers, requests, tasks, current_blob, download_task,
                   dlExc, dlMustCancel, accumulator_task, accMustCancel, dlPc, gbPc,
                   accPc, accPeer, responsive, found, finderStopped, nextBlob, gbArg, gbRet,
                   launched, disconnects, stopCalls, cleanupRuns, finishedCalls, scenA>>

\* _request_blob, line 127: what set.remove raises for a peer that is not in
\* the set.
RemoveAbsent == "KeyError"

\* _request_blob, lines 124-131: request_blobs raises asyncio.TimeoutError.
\* connections.remove(peer) raises KeyError when the peer is absent: the task
\* dies there and the pool and the signal stay as they are.
FetchTimeout(f) ==
    /\ UNCHANGED jvars
    /\ UNCHANGED lockless
    /\ f.st = "inflight" /\ f.fate = "timeout"
    /\ IF f.peer \in connections
       THEN /\ connections' = Evict(connections, f.peer)
            /\ has_peers' = SignalAfterEvict(connections', has_peers)
            /\ UNCHANGED taskExc
       ELSE /\ taskExc' = taskExc \cup {RemoveAbsent}
            /\ UNCHANGED <<connections, has_peers>>
    /\ fetches' = Remove(fetches, f)
    /\ waitDone' = (waitDone \/ f.waited)
    /\ UNCHANGED <<requests, tasks, current_blob, download_task, dlExc, dlMustCancel,
                   accumulator_task, accMustCancel, dlPc, gbPc, accPc, accPeer, verified,
                   responsive, found, finderStopped, nextBlob, gbArg, gbRet, launched,
                   disconnects, stopCalls, cleanupRuns, finishedCalls, scenA>>

\* _accumulate_connections, line 180: the peer finder yields a candidate.
AccNext(p) ==
    /\ UNCHANGED jvars
    /\ UNCHANGED taskExc
    /\ UNCHANGED lockless
    /\ accumulator_task = "running" /\ ~accMustCancel
    /\ accPc = "iter" /\ ~finderStopped /\ found < MaxCandidates
    /\ accPeer' = p
    /\ accPc' = "connect"
    /\ found' = found + 1
    /\ UNCHANGED <<connections, has_peers, requests, tasks, current_blob, download_task,
                   dlExc, dlMustCancel, accumulator_task, accMustCancel, dlPc, gbPc,
                   fetches, waitDone, verified, responsive, finderStopped, nextBlob, gbArg,
                   gbRet, launched, disconnects, stopCalls, cleanupRuns, finishedCalls,
                   scenA>>

\* _accumulate_connections replacing the pool by the new peer.
PoolAddOnly(conns, p) == {p}

\* _accumulate_connections, lines 185-187: the pool and the signal after a
\* candidate connected.
PoolAdd(conns, p) == conns \cup {p}

\* _accumulate_connections, lines 181-189: connect_tcp returns.
AccConnect(connected) ==
    /\ UNCHANGED jvars
    /\ UNCHANGED taskExc
    /\ UNCHANGED lockless
    /\ accumulator_task = "running" /\ ~accMustCancel
    /\ accPc = "connect"
    /\ IF connected
       THEN /\ connections' = PoolAdd(connections, accPeer)
            /\ has_peers' = TRUE
            /\ scenA' = IF scenA = "on" /\ accPeer \notin connections THEN "off" ELSE scenA
       ELSE UNCHANGED <<connections, has_peers, scenA>>
    /\ accPc' = "iter"
    /\ accPeer' = 0
    /\ UNCHANGED <<requests, tasks, current_blob, download_task, dlExc, dlMustCancel,
                   accumulator_task, accMustCancel, dlPc, gbPc, fetches, waitDone,
                   verified, responsive, found, finderStopped, nextBlob, gbArg, gbRet,
                   launched, disconnects, stopCalls, cleanupRuns, finishedCalls>>

\* _accumulate_connections, line 180: the peer finder is exhausted.
AccExhausted ==
    /\ UNCHANGED jvars
    /\ UNCHANGED taskExc
    /\ UNCHANGED lockless
    /\ accumulator_task = "running" /\ ~accMustCancel
    /\ accPc = "iter"
    /\ accumulator_task' = "finished"
    /\ UNCHANGED <<connections, has_peers, requests, tasks, current_blob, download_task,
                   dlExc, dlMustCancel, accMustCancel, dlPc, gbPc, accPc, accPeer,
                   fetches, waitDone, verified, responsive, found, finderStopped, nextBlob,
                   gbArg, gbRet, launched, disconnects, stopCalls, cleanupRuns,
                   finishedCalls, scenA>>

\* The cancel() of stop, line 193, reaches the accumulator task at the await
\* it is suspended on.
AccCancelled ==
    /\ UNCHANGED jvars
    /\ UNCHANGED taskExc
    /\ UNCHANGED lockless
    /\ accumulator_task = "running" /\ accMustCancel
    /\ accumulator_task' = "cancelled"
    /\ accMustCancel' = FALSE
    /\ accPeer' = 0
    /\ UNCHANGED <<connections, has_peers, requests, tasks, current_blob, download_task,
                   dlExc, dlMustCancel, dlPc, gbPc, accPc, fetches, waitDone, verified,
                   responsive, found, finderStopped, nextBlob, gbArg, gbRet, launched,
                   disconnects, stopCalls, cleanupRuns, finishedCalls, scenA>>

\* download, lines 215-217.
Download ==
    /\ UNCHANGED jvars
    /\ UNCHANGED taskExc
    /\ UNCHANGED lockless
    /\ download_task = "none"
    /\ download_task' = "pending"
    /\ UNCHANGED <<connections, has_peers, requests, tasks, current_blob, dlExc,
                   dlMustCancel, accumulator_task, accMustCancel, dlPc, gbPc, accPc,
                   accPeer, fetches, waitDone, verified, responsive, found, finderStopped,
                   nextBlob, gbArg, gbRet, launched, disconnects, stopCalls, cleanupRuns,
                   finishedCalls, scenA>>

\* _download, lines 201-203: the first step of the download task.
DlStart ==
    /\ UNCHANGED jvars
    /\ UNCHANGED taskExc
    /\ UNCHANGED lockless
    /\ download_task = "pending" /\ ~dlMustCancel
    /\ download_task' = "running"
    /\ accumulator_task' = "running"
    /\ accPc' = "iter"
    /\ dlPc' = "assemble"
    /\ UNCHANGED <<connections, has_peers, requests, tasks, current_blob, dlExc,
                   dlMustCancel, accMustCancel, gbPc, accPeer, fetches, waitDone,
                   verified, responsive, found, finderStopped, nextBlob, gbArg, gbRet,
                   launched, disconnects, stopCalls, cleanupRuns, finishedCalls, scenA>>

\* A task cancelled before its first step: CancelledError is thrown into the
\* coroutine before line 201, so the try block is never entered.
DlCancelBeforeStart ==
    /\ UNCHANGED jvars
    /\ UNCHANGED taskExc
    /\ UNCHANGED lockless
    /\ download_task = "pending" /\ dlMustCancel
    /\ download_task' = "cancelled"
    /\ dlMustCancel' = FALSE
    /\ dlPc' = "end"
    /\ UNCHANGED <<connections, has_peers, requests, tasks, current_blob, dlExc,
                   accumulator_task, accMustCancel, gbPc, accPc, accPeer, fetches,
                   waitDone, verified, responsive, found, finderStopped, nextBlob, gbArg,
                   gbRet, launched, disconnects, stopCalls, cleanupRuns, finishedCalls,
                   scenA>>

\* _download without the try/finally of lines 202-213: the task ends and
\* stop() is not run.
FinallyMissing(state, exc) ==
    /\ UNCHANGED <<cleanupRuns, accMustCancel, finderStopped, disconnects, connections,
                   lockless>>
    /\ download_task' = state
    /\ dlExc' = exc
    /\ dlMustCancel' = FALSE
    /\ dlPc' = "end"
    /\ gbPc' = "idle"
    /\ fetches' = Unwait(fetches)
    /\ waitDone' = FALSE
    /\ scenA' = IF scenA = "on" /\ gbRet = NoBlob THEN "off" ELSE scenA

\* _download, lines 212-213: the finally block runs stop() inside the
\* download task, which ends in the same step.
Finally(state, exc) ==
    /\ cleanupRuns' = cleanupRuns + 1
    /\ StopBody
    /\ download_task' = state
    /\ dlExc' = exc
    /\ dlMustCancel' = FALSE
    /\ dlPc' = "end"
    /\ gbPc' = "idle"
    /\ fetches' = Unwait(fetches)
    /\ waitDone' = FALSE
    /\ scenA' = IF scenA = "on" /\ gbRet = NoBlob THEN "off" ELSE scenA

\* _download, line 203: the assembler raises.  stop() asks the task to cancel
\* itself, but the exception ends the task first.
AssemblyFail ==
    /\ UNCHANGED jvars
    /\ UNCHANGED taskExc
    /\ download_task = "running" /\ ~dlMustCancel
    /\ dlPc = "assemble"
    /\ Finally("finished", "AssemblyError")
    /\ UNCHANGED <<has_peers, requests, tasks, current_blob, accumulator_task, accPc,
                   accPeer, verified, responsive, found, nextBlob, gbArg, gbRet, launched,
                   stopCalls, finishedCalls>>

\* _download, lines 203-210: the assembler has every blob of the stream and
\* awaits change_file_status.
AssemblyDone ==
    /\ UNCHANGED jvars
    /\ UNCHANGED taskExc
    /\ UNCHANGED lockless
    /\ download_task = "running" /\ ~dlMustCancel
    /\ dlPc = "assemble" /\ nextBlob > NumBlobs
    /\ dlPc' = "status"
    /\ UNCHANGED <<connections, has_peers, requests, tasks, current_blob, download_task,
                   dlExc, dlMustCancel, accumulator_task, accMustCancel, gbPc, accPc,
                   accPeer, fetches, waitDone, verified, responsive, found, finderStopped,
                   nextBlob, gbArg, gbRet, launched, disconnects, stopCalls, cleanupRuns,
                   finishedCalls, scenA>>

\* What the download task holds when its coroutine returns after stop(), line
\* 195, asked it to cancel itself (Task.__step, "cancelled right before coro
\* stops": the task is done with CancelledError as its exception).
SelfCancelled == "CancelledError"

\* _download, lines 211-213: finished_callback, then the finally block.
DlFinish ==
    /\ UNCHANGED jvars
    /\ UNCHANGED taskExc
    /\ download_task = "running" /\ ~dlMustCancel
    /\ dlPc = "status"
    /\ finishedCalls' = finishedCalls + 1
    /\ Finally("finished", SelfCancelled)
    /\ UNCHANGED <<has_peers, requests, tasks, current_blob, accumulator_task, accPc,
                   accPeer, verified, responsive, found, nextBlob, gbArg, gbRet, launched,
                   stopCalls>>

\* The cancel() of an external stop reaches the running download task at the
\* await it is suspended on: CancelledError unwinds through the finally block.
DlCancelled ==
    /\ UNCHANGED jvars
    /\ UNCHANGED taskExc
    /\ download_task = "running" /\ dlMustCancel /\ AllStarted
    /\ Finally("cancelled", "none")
    /\ UNCHANGED <<has_peers, requests, tasks, current_blob, accumulator_task, accPc,
                   accPeer, verified, responsive, found, nextBlob, gbArg, gbRet, launched,
                   stopCalls, finishedCalls>>

\* stop, lines 191-198, called from outside the download task.
Stop ==
    /\ UNCHANGED jvars
    /\ UNCHANGED taskExc
    /\ download_task # "none"
    /\ stopCalls < MaxStops
    /\ stopCalls' = stopCalls + 1
    /\ StopBody
    /\ dlMustCancel' = (dlMustCancel \/ StopCancelsDl)
    /\ scenA' = IF scenA = "on" /\ gbRet = NoBlob THEN "off" ELSE scenA
    /\ UNCHANGED <<has_peers, requests, tasks, current_blob, download_task, dlExc,
                   accumulator_task, dlPc, gbPc, accPc, accPeer, fetches, waitDone,
                   verified, responsive, found, nextBlob, gbArg, gbRet, launched,
                   cleanupRuns, finishedCalls>>

\* ---------------------------------------------------------- specification
\* StreamDownloader.__init__, lines 96-118.  The blob store may hold verified
\* blobs already.
DInit ==
    /\ connections = {}
    /\ has_peers = FALSE
    /\ requests = [h \in Blobs |-> << >>]
    /\ tasks = << >>
    /\ current_blob = NoBlob
    /\ download_task = "none"
    /\ dlExc = "none"
    /\ dlMustCancel = FALSE
    /\ accumulator_task = "none"
    /\ accMustCancel = FALSE
    /\ dlPc = "init"
    /\ gbPc = "idle"
    /\ accPc = "iter"
    /\ accPeer = 0
    /\ fetches = EmptyBag
    /\ waitDone = FALSE
    /\ verified \in SUBSET Blobs
    /\ responsive = {}
    /\ found = 0
    /\ finderStopped = FALSE
    /\ nextBlob = 1
    /\ gbArg = NoBlob
    /\ gbRet = NoBlob
    /\ launched = [p \in Peers |-> [h \in Blobs |-> 0]]
    /\ disconnects = [p \in Peers |-> 0]
    /\ stopCalls = 0
    /\ cleanupRuns = 0
    /\ finishedCalls = 0
    /\ scenA = "no"
    /\ lockless = {}
    /\ taskExc = {}

\* ------------------------------------------------ AsyncGeneratorJunction
\* running with all() in the place of any().
runningAll == \A g \in DOMAIN running_iterators : running_iterators[g]

\* running, lines 30-32: any(self.running_iterators.values()).
running == \E g \in DOMAIN running_iterators : running_iterators[g]

\* The source g has been registered and its iterate task has not left the
\* "async for" loop.
Active(g) == itSt[g] \in {"handle", "created", "running"}

\* add_generator, lines 34-45: register the generator and leave a call_soon
\* handle that will create its iterate task.
AddGenerator(g) ==
    /\ UNCHANGED dvars
    /\ itSt[g] = "none"
    /\ running_iterators' = [h \in DOMAIN running_iterators \cup {g} |->
                                IF h = g THEN TRUE ELSE running_iterators[h]]
    /\ itSt' = [itSt EXCEPT ![g] = "handle"]
    /\ UNCHANGED <<queue, produced, consPc, consumed, signalled>>

\* add_generator, line 45: the call_soon callback creates the iterate task.
HandleRun(g) ==
    /\ UNCHANGED dvars
    /\ itSt[g] = "handle"
    /\ itSt' = [itSt EXCEPT ![g] = "created"]
    /\ UNCHANGED <<running_iterators, queue, produced, consPc, consumed, signalled>>

\* iterate, lines 40-41: the generator yields an item, which is put on the queue.
IterItem(g) ==
    /\ UNCHANGED dvars
    /\ itSt[g] \in {"created", "running"}
    /\ produced[g] < MaxItems
    /\ produced' = [produced EXCEPT ![g] = @ + 1]
    /\ queue' = Append(queue, <<g, produced[g] + 1>>)
    /\ itSt' = [itSt EXCEPT ![g] = "running"]
    /\ UNCHANGED <<running_iterators, consPc, consumed, signalled>>

\* iterate, lines 40-42: the generator is exhausted and is marked inactive.
IterEnd(g) ==
    /\ UNCHANGED dvars
    /\ itSt[g] \in {"created", "running"}
    /\ itSt' = [itSt EXCEPT ![g] = "done"]
    /\ running_iterators' = [running_iterators EXCEPT ![g] = FALSE]
    /\ UNCHANGED <<queue, produced, consPc, consumed, signalled>>

\* iterate, line 40: the generator raises; the exception ends the iterate
\* task before line 42.
IterRaise(g) ==
    /\ UNCHANGED dvars
    /\ itSt[g] \in {"created", "running"}
    /\ itSt' = [itSt EXCEPT ![g] = "failed"]
    /\ UNCHANGED <<running_iterators, queue, produced, consPc, consumed, signalled>>

\* __anext__, lines 50-54: the consumer asks for the next item.
ANext ==
    /\ UNCHANGED dvars
    /\ consPc = "idle"
    /\ IF running
       THEN IF queue # << >>
            THEN /\ consumed' = Append(consumed, Head(queue))
                 /\ queue' = Tail(queue)
                 /\ UNCHANGED <<consPc, signalled>>
            ELSE /\ consPc' = "waiting"
                 /\ UNCHANGED <<queue, consumed, signalled>>
       ELSE /\ consPc' = "stopped"
            /\ signalled' = signalled + 1
            /\ UNCHANGED <<queue, consumed>>
    /\ UNCHANGED <<running_iterators, itSt, produced>>

\* __anext__, line 52: queue.get() returns to the waiting consumer.
QueueGet ==
    /\ UNCHANGED dvars
    /\ consPc = "waiting" /\ queue # << >>
    /\ consumed' = Append(consumed, Head(queue))
    /\ queue' = Tail(queue)
    /\ consPc' = "idle"
    /\ UNCHANGED <<running_iterators, itSt, produced, signalled>>

\* __aiter__, lines 47-48: the junction is iterated again after it stopped.
AIter ==
    /\ UNCHANGED dvars
    /\ consPc = "stopped" /\ signalled < MaxCompletions
    /\ consPc' = "idle"
    /\ UNCHANGED <<running_iterators, queue, itSt, produced, consumed, signalled>>

\* AsyncGeneratorJunction.__init__, lines 24-28.
JInit ==
    /\ running_iterators = << >>
    /\ queue = << >>
    /\ itSt = [g \in Gens |-> "none"]
    /\ produced = [g \in Gens |-> 0]
    /\ consPc = "idle"
    /\ consumed = << >>
    /\ signalled = 0

Init == DInit /\ JInit

Next ==
    \/ Download
    \/ DlStart
    \/ DlCancelBeforeStart
    \/ GetBlobCall
    \/ GetBlobTasksDone
    \/ GetBlobSignal
    \/ AssemblyFail
    \/ AssemblyDone
    \/ DlFinish
    \/ DlCancelled
    \/ Stop
    \/ \E p \in Peers : AccNext(p)
    \/ \E c \in BOOLEAN : AccConnect(c)
    \/ AccExhausted
    \/ AccCancelled
    \/ \E f \in BagToSet(fetches) : FetchStart(f)
    \/ \E f \in BagToSet(fetches) : FetchSuccess(f)
    \/ \E f \in BagToSet(fetches) : FetchTimeout(f)

Spec == Init /\ [][Next]_vars

NextJ ==
    \/ \E g \in Gens : AddGenerator(g)
    \/ \E g \in Gens : HandleRun(g)
    \/ \E g \in Gens : IterItem(g)
    \/ \E g \in Gens : IterEnd(g)
    \/ \E g \in Gens : IterRaise(g)
    \/ ANext
    \/ QueueGet
    \/ AIter

\* The junction beside a downloader that has not been started and an empty
\* blob store.
InitJ == Init /\ verified = {}

\* The junction alone.
SpecJ == InitJ /\ [][NextJ]_vars

\* The consumer of the junction keeps iterating: it calls __anext__ when it
\* can and resumes from queue.get() when an item is there.
FairSpecJ == SpecJ /\ WF_vars(ANext) /\ WF_vars(QueueGet)

\* The event loop runs every task that is ready, and every request of a peer
\* ends (request_blobs returns or times out).
FairSpec ==
    /\ Spec
    /\ WF_vars(GetBlobTasksDone)
    /\ WF_vars(GetBlobSignal)
    /\ WF_vars(\E f \in BagToSet(fetches) : FetchStart(f))
    /\ WF_vars(\E f \in BagToSet(fetches) : FetchSuccess(f))
    /\ WF_vars(\E f \in BagToSet(fetches) : FetchTimeout(f))

\* ------------------------------------------------------------------ claims
\* get_blob is looping on an unverified blob and the pool holds a peer whose
\* request of that blob succeeds.
GoodPeerInPool ==
    /\ gbPc # "idle"
    /\ current_blob \notin verified
    /\ connections \cap responsive # {}

Returned == gbRet # NoBlob /\ gbRet = gbArg /\ gbRet \in verified

\* C1: liveness of get_blob.  Whenever get_blob is looping on an unverified
\* blob and the pool holds a peer whose request of that blob succeeds, get_blob
\* eventually returns the blob verified (unless stop() cancels the call).
C1_Liveness == GoodPeerInPool ~> (Returned \/ stopCalls > 0)

\* The requests of blob h to peer p that have been sent and have not ended.
InFlight(p, h) ==
    \E f \in BagToSet(fetches) : f.peer = p /\ f.blob = h /\ f.st = "inflight"

\* Peer p has a request task in some state.
HasFetch(p) == \E f \in BagToSet(fetches) : f.peer = p

\* C2: dedup.  For every blob h and every peer p at most one request of h is
\* ever launched to p, whatever the number of passes of the loop and even if
\* p is evicted and added to the pool again.
C2_Dedup == \A p \in Peers : \A h \in Blobs : launched[p][h] <= 1

\* A peer that was asked for the current blob, timed out, was evicted and
\* added again, and a later pass of the loop has not asked it again.
C2_Witness ==
    \E p \in Peers :
        /\ gbPc = "wait_signals" /\ ~has_peers
        /\ current_blob \in Blobs /\ current_blob \notin verified
        /\ p \in connections /\ p \notin responsive
        /\ launched[p][current_blob] = 1
        /\ ~HasFetch(p)
        /\ stopCalls = 0

\* The step is the timeout of request f (lines 124-131).
TimesOut(f) ==
    /\ f.st = "inflight" /\ f.fate = "timeout"
    /\ fetches' = Remove(fetches, f)

\* C3: eviction.  The timeout of a request to a peer of the pool removes that
\* peer, and only it, from the pool; the peer stays in the ledger entry of the
\* blob; the caller of get_blob sees nothing of it (the download task neither
\* ends nor resumes); and a request is dispatched only to a peer that is in
\* the pool.
C3_Eviction ==
    [][ /\ \A f \in BagToSet(fetches) :
              (TimesOut(f) /\ f.peer \in connections) =>
                  /\ connections' = connections \ {f.peer}
                  /\ InSeq(f.peer, requests'[f.blob])
                  /\ UNCHANGED <<gbPc, dlPc, download_task, dlExc, gbRet>>
        /\ \A f \in BagToSet(fetches') :
              (f.st = "sched" /\ f \notin BagToSet(fetches)) => f.peer \in connections
      ]_vars

\* A peer was asked for the current blob, timed out and is out of the pool while
\* the request to another peer is still in flight and get_blob still waits.
C3_Witness ==
    \E p \in Peers : \E q \in Peers \ {p} :
        /\ gbPc # "idle" /\ current_blob \in Blobs
        /\ p \notin connections /\ p \notin responsive
        /\ InSeq(p, requests[current_blob])
        /\ launched[p][current_blob] = 1 /\ ~HasFetch(p)
        /\ InFlight(q, current_blob)
        /\ stopCalls = 0 /\ cleanupRuns = 0

\* C4: only success exit.  Whenever get_blob has returned, what it returned
\* is the blob of the hash it was called with, and that blob is verified.
C4_OnlySuccessExit == gbRet # NoBlob => (gbRet = gbArg /\ gbRet \in verified)

\* get_blob returned a blob that was requested from a peer.
C4_Witness ==
    /\ gbRet # NoBlob /\ gbPc = "idle" /\ dlPc = "assemble"
    /\ \E p \in Peers : launched[p][gbRet] = 1

\* C5: cache hit.  A call of get_blob for a verified blob returns it in the
\* same step, launches no request and leaves the pool, the ledger, the task
\* list and the has_peers signal as they were.
C5_CacheHit ==
    [][ (gbArg' # gbArg /\ gbArg' \in verified) =>
            /\ gbRet' = gbArg' /\ gbPc' = "idle"
            /\ UNCHANGED <<connections, requests, tasks, has_peers, fetches, launched>>
      ]_vars

\* get_blob returned a verified blob that no peer was asked for, with peers
\* in the pool and the signal set.
C5_Witness ==
    /\ gbRet # NoBlob /\ gbRet = gbArg /\ gbPc = "idle"
    /\ connections # {} /\ has_peers
    /\ requests[gbRet] = << >>
    /\ \A p \in Peers : launched[p][gbRet] = 0

\* The step runs stop(): from outside, or in the finally block of _download.
StopStep == stopCalls' # stopCalls \/ cleanupRuns' # cleanupRuns

\* C6: idempotent teardown.  No peer is ever disconnected twice, and every run
\* of stop() disconnects each peer of the pool once, no other peer, and leaves
\* the pool empty.
C6_Teardown ==
    /\ [](\A p \in Peers : disconnects[p] <= 1)
    /\ [][ StopStep =>
              /\ connections' = {}
              /\ \A p \in Peers :
                    disconnects'[p] = IF p \in connections THEN 1 ELSE disconnects[p]
         ]_vars

\* stop() was called twice from outside and once by the finally block, and a
\* peer of the pool was disconnected.
C6_Witness ==
    /\ stopCalls = 2 /\ cleanupRuns = 1
    /\ connections = {}
    /\ \E p \in Peers : disconnects[p] = 1

\* C7 as stated: once the driving task of a session has ended, the cleanup of
\* stop() has run exactly once for it.
C7_Original == download_task \in {"finished", "cancelled"} => cleanupRuns = 1

\* C7: guaranteed cleanup.  The finally block of _download runs stop() exactly
\* once when a driving task that has started ends, whether assembly succeeds,
\* raises or the task is cancelled, and never before; a task cancelled before
\* its first step never enters the block, and the stop() that cancelled it
\* is the only cleanup of the session.
C7_Cleanup ==
    /\ cleanupRuns <= 1
    /\ download_task \in {"none", "pending", "running"} => cleanupRuns = 0
    /\ (download_task \in {"finished", "cancelled"} /\ accumulator_task # "none")
           => cleanupRuns = 1
    /\ (download_task \in {"finished", "cancelled"} /\ accumulator_task = "none")
           => (download_task = "cancelled" /\ cleanupRuns = 0 /\ stopCalls >= 1)

\* The driving task was cancelled by an external stop() while get_blob waited
\* for peers, and the finally block has run.
C7_Witness ==
    /\ download_task = "cancelled" /\ cleanupRuns = 1 /\ stopCalls >= 1
    /\ gbArg # NoBlob /\ gbRet = NoBlob
    /\ \E p \in Peers : disconnects[p] = 1

\* C8 as stated: in Scenario A, P1 is out of the pool once get_blob has
\* returned.
C8_Original == (scenA = "on" /\ Returned) => 1 \notin connections

\* C8: Scenario A.  With the pool {P1, P2}, P1 timing out and P2 answering,
\* get_blob(H) has sent a request to both peers when it returns H verified,
\* and P1 is then either out of the pool or still in it with its request of H
\* in flight (its timeout evicts it after the return).
C8_ScenarioA ==
    (scenA = "on" /\ Returned) =>
        /\ launched[1][gbRet] = 1 /\ launched[2][gbRet] = 1
        /\ 1 \notin connections \/ InFlight(1, gbRet)

\* Scenario A has returned and P1 has been evicted by its timeout; no stop().
C8_Witness ==
    /\ scenA = "on" /\ Returned
    /\ 1 \notin connections /\ 2 \in connections
    /\ ~InFlight(1, gbRet)
    /\ stopCalls = 0 /\ cleanupRuns = 0

\* C9: ledger independence.  A peer is in the ledger entry of a blob only if a
\* request of that blob has been launched to it (or is scheduled to start,
\* with that blob as the current one), and a dispatch changes the entry of the
\* current blob only.
C9_LedgerIndependence ==
    /\ [](\A p \in Peers : \A h \in Blobs :
            InSeq(p, requests[h]) =>
                \/ launched[p][h] >= 1
                \/ /\ h = current_blob
                   /\ \E f \in BagToSet(fetches) : f.peer = p /\ f.st = "sched")
    /\ [][\A h \in Blobs : requests'[h] # requests[h] => h = current_blob']_vars

\* The second blob is the current one and a peer that was asked for the first
\* blob has not been asked for the second.
C9_Witness ==
    /\ current_blob = 2 /\ gbPc # "idle"
    /\ requests[2] # << >>
    /\ \E p \in Peers :
          /\ InSeq(p, requests[1]) /\ launched[p][1] = 1
          /\ ~InSeq(p, requests[2]) /\ launched[p][2] = 0

\* C10: completion of the junction.  __anext__ raises StopAsyncIteration only
\* in a state where no registered generator is still being iterated, and
\* add_generator makes the junction running, also after every earlier
\* generator has finished.
C10_Completion ==
    [][ /\ signalled' # signalled => \A g \in Gens : ~Active(g)
        /\ \A g \in Gens : (itSt[g] = "none" /\ itSt'[g] = "handle") => running'
      ]_vars

\* The junction signalled completion after a generator finished, then another
\* generator was added and the consumer waits for its items.
C10_Witness ==
    /\ signalled >= 1 /\ running
    /\ \E g \in Gens : itSt[g] = "done" /\ produced[g] > 0
    /\ \E g \in Gens : Active(g)
    /\ consPc = "waiting"

\* C11: failure of a source.  A generator that raised while it was iterated
\* is marked inactive in running_iterators.
C11_FailedSourceInactive ==
    \A g \in Gens : itSt[g] = "failed" => ~running_iterators[g]

\* Peer p is in the pool and no request of blob h has been dispatched to it,
\* while get_blob is active on h and h is not verified.
Unserved(p, h) ==
    /\ gbPc # "idle" /\ current_blob = h /\ h \notin verified
    /\ p \in connections /\ ~InSeq(p, requests[h])

\* C12: no lost wake-up.  get_blob never sits in its wait on the signals with
\* has_peers clear while a peer of the pool has not been asked for the blob;
\* and a peer that is in the pool, not yet asked, while get_blob is active on
\* an unverified blob is eventually sent a request of that blob, unless the
\* blob becomes verified, the peer leaves the pool (a timeout evicts it or
\* stop() empties the pool) or the call ends first.
C12_NoLostWakeup ==
    /\ [](\A p \in Peers :
            (gbPc = "wait_signals" /\ Unserved(p, current_blob)) => has_peers)
    /\ \A p \in Peers :
          Unserved(p, current_blob) ~>
              \/ gbPc # "idle" /\ launched[p][current_blob] >= 1
              \/ gbPc = "idle" \/ current_blob \in verified
              \/ p \notin connections

\* The accumulator added a peer while get_blob was waiting for the request
\* tasks of its latest pass; the peer has not been asked yet.
C12_Witness ==
    \E p \in Peers :
        /\ gbPc = "wait_tasks" /\ Unserved(p, current_blob) /\ has_peers
        /\ launched[p][current_blob] = 0
        /\ \E q \in Peers \ {p} : InFlight(q, current_blob)
        /\ stopCalls = 0

\* C13: lock discipline.  No task has changed the pool or the has_peers signal
\* without holding self.lock.
C13_LockDiscipline == lockless = {}

\* get_blob is suspended in its wait step and the download task is not being
\* cancelled; the request tasks of the latest pass have all been started.
Waiting ==
    /\ download_task = "running" /\ ~dlMustCancel
    /\ gbPc \in {"wait_tasks", "wait_signals"} /\ AllStarted

\* One of the three events of the wait step has happened: a request task of
\* the latest pass has ended, has_peers is set, or the blob has been written.
RaceEvent == waitDone \/ has_peers \/ finished_writing(current_blob)

\* C14: three-way race of the wait step.  While get_blob is waiting, each of
\* the three events is by itself enough for get_blob to resume.
C14_Race == (Waiting /\ RaceEvent) => ENABLED (GetBlobTasksDone \/ GetBlobSignal)

\* stop() has run, from outside or in the finally block of _download.
TornDown == stopCalls > 0 \/ cleanupRuns > 0

\* C15: teardown covers the background tasks.  Once stop() has run, no
\* request task of the session is left, the accumulator does not run on
\* (it has ended or its cancellation is pending) and the pool is empty.
C15_TeardownCoversTasks ==
    TornDown =>
        /\ fetches = EmptyBag
        /\ accumulator_task = "running" => accMustCancel
        /\ connections = {}

\* C16: idempotent removal.  The eviction step of a request that timed out
\* never fails: for a peer that is absent from the pool it ends the task
\* without an exception.
C16_IdempotentRemoval == taskExc = {}

\* The step is one of the accumulator task.
AccStep ==
    /\ accumulator_task = "running"
    /\ accPc' # accPc \/ accumulator_task' # accumulator_task

\* C17: effect of the accumulator task.  A step of the accumulator leaves the
\* ledger and the request tasks alone and removes no peer from the pool; it
\* either leaves the pool and has_peers as they were (a candidate is taken, a
\* connect failed, the task ends) or, when a connect returns, adds the
\* candidate to the pool with has_peers set.
C17_AccumulatorEffect ==
    [][ AccStep =>
          /\ UNCHANGED <<requests, tasks, fetches, launched, disconnects>>
          /\ connections \subseteq connections'
          /\ \/ UNCHANGED <<connections, has_peers>>
             \/ /\ accPc = "connect" /\ accPc' = "iter"
                /\ connections' = connections \cup {accPeer}
                /\ has_peers'
      ]_vars

\* Two candidates have been tried before any call of get_blob and any stop():
\* one of them is in the pool with has_peers set.
C17_Witness ==
    /\ found = 2 /\ accPc = "iter" /\ accumulator_task = "running"
    /\ Cardinality(connections) = 1 /\ has_peers
    /\ gbArg = NoBlob /\ ~TornDown

\* C18: outcome of a session.  When assembly succeeds, finished_callback is
\* called exactly once and the download task ends as completed normally, with
\* no exception and not cancelled; when assembly fails, finished_callback is
\* never called and the download task ends with that failure as its
\* exception, after the finally block has run.
C18_SessionOutcome ==
    /\ finishedCalls <= 1
    /\ finishedCalls = 1 => (download_task = "finished" /\ dlExc = "none")
    /\ dlExc = "AssemblyError" =>
          (download_task = "finished" /\ finishedCalls = 0 /\ cleanupRuns = 1)

\* C19: the junction loses no item.  When __anext__ signals completion the
\* queue is empty and every item a generator has produced has been returned
\* to the consumer.
C19_NoItemLost ==
    [][ signalled' # signalled =>
          /\ queue = << >>
          /\ \A g \in Gens : \A k \in 1..produced[g] : InSeq(<<g, k>>, consumed)
      ]_vars

\* Every generator has been added and is exhausted: no generator is active
\* and none can be added any more.
AllExhausted == \A g \in Gens : itSt[g] = "done"

\* C20: the junction terminates.  Once every generator is exhausted and no
\* other is added, a consumer that iterates the junction eventually gets
\* StopAsyncIteration, also when it was waiting in queue.get() when the last
\* generator ended.
C20_Termination == AllExhausted ~> consPc = "stopped"

====
